---- MODULE Spec2Model ----
(***************************************************************************)
(* NexResume (src/Nexresume.py): the batch pipeline                        *)
(*   load_job_description -> process_resumes_in_batch ->                   *)
(*     per file: extract_text_from_resume, create_llm_prompt,              *)
(*               get_analysis_from_gpt, json.dump of the report.           *)
(* File names, texts and JSON values are sequences of one-character        *)
(* strings, so that endswith, splitext and isspace are computed.           *)
(***************************************************************************)
EXTENDS Integers, Sequences, FiniteSets, TLC

VARIABLES
    pc,              \* position of the main program
    jobDesc,         \* what load_job_description returned
    credential,      \* OPENAI_API_KEY in the process environment
    resumesFolder,   \* the input directory: [exists, files]
    reportsExists,   \* whether the output directory exists
    reports,         \* the output directory: report file name -> bytes
    listing,         \* what os.listdir returned, in its order
    idx,             \* index of the loop over listing
    line,            \* position inside the loop body
    state,           \* per eligible file: its place in the per-file state machine
    resume_text,     \* local of the loop body
    prompt,          \* local of the loop body
    analysis_result, \* local of the loop body
    disk,            \* contents of the resume files read so far
    stub,            \* the endpoint's response to each prompt sent so far
    called,          \* files for which get_analysis_from_gpt was called
    writes,          \* log of the report files opened for writing
    wfault,          \* whether some report write failed
    run,             \* 1 in the first batch, 2 in a repeated batch
    firstReports     \* the output directory as the first batch left it

vars == <<pc, jobDesc, credential, resumesFolder, reportsExists, reports, listing,
          idx, line, state, resume_text, prompt, analysis_result, disk, stub,
          called, writes, wfault, run, firstReports>>

(***************************************************************************)
(* Bounds                                                                  *)
(***************************************************************************)
MaxFiles == 2

(***************************************************************************)
(* Strings                                                                 *)
(***************************************************************************)
PDF_EXT == <<".", "p", "d", "f">>
TXT_EXT == <<".", "t", "x", "t">>
REPORT_SUFFIX == <<"_", "r", "e", "p", "o", "r", "t", ".", "j", "s", "o", "n">>
RESUMES_DIR == <<"resumes/">>

Whitespace == {" ", "\t", "\n"}

\* str.endswith
endswith(s, suffix) ==
    /\ Len(s) >= Len(suffix)
    /\ SubSeq(s, Len(s) - Len(suffix) + 1, Len(s)) = suffix

\* str.isspace: at least one character and all of them whitespace
isspace(s) == Len(s) > 0 /\ \A i \in 1..Len(s) : s[i] \in Whitespace

\* os.path.join(resumes_folder, filename)
path_join(folder, filename) == folder \o filename

LastDot(p) ==
    LET D == {i \in 1..Len(p) : p[i] = "."}
    IN  IF D = {} THEN 0 ELSE CHOOSE i \in D : \A j \in D : j <= i

\* os.path.splitext on a name without directory separators: the extension
\* starts at the last dot, unless only dots precede that dot
splitext(p) ==
    LET dot == LastDot(p)
    IN  IF dot > 0 /\ \E i \in 1..(dot - 1) : p[i] # "."
        THEN <<SubSeq(p, 1, dot - 1), SubSeq(p, dot, Len(p))>>
        ELSE <<p, <<>>>>

\* line 103: filename.endswith(('.pdf', '.txt'))
Eligible(filename) == endswith(filename, PDF_EXT) \/ endswith(filename, TXT_EXT)

(***************************************************************************)
(* Inputs                                                                  *)
(***************************************************************************)
Names ==
    { <<"a">> \o PDF_EXT,
      <<"a">> \o TXT_EXT,
      PDF_EXT,
      <<"a", ".", "b">> \o TXT_EXT,
      <<"a", ".", "d", "o", "c">> }

Directories == {S \in SUBSET Names : Cardinality(S) <= MaxFiles}

Orders(S) ==
    {s \in [1..Cardinality(S) -> S] : \A i, j \in 1..Cardinality(S) : s[i] = s[j] => i = j}

NoPage == [none |-> TRUE, text |-> <<>>]
Page(t) == [none |-> FALSE, text |-> t]

PdfPages ==
    { <<NoPage>>,
      <<Page(<<" ">>), NoPage>>,
      <<Page(<<"x">>)>>,
      <<NoPage, Page(<<"y">>)>> }

TxtData == { <<>>, <<" ", "\n">>, <<"x">>, <<"y">> }

Unreadable == [readable |-> FALSE, pages |-> <<>>, data |-> <<>>]

Contents(filename) ==
    {Unreadable} \cup
    IF endswith(filename, PDF_EXT)
    THEN {[readable |-> TRUE, pages |-> p, data |-> <<>>] : p \in PdfPages}
    ELSE {[readable |-> TRUE, pages |-> <<>>, data |-> d] : d \in TxtData}

(***************************************************************************)
(* JSON objects: a dict is a sequence of <<key, value>> pairs with         *)
(* distinct keys, in insertion order.                                      *)
(***************************************************************************)
EmptyDict == <<>>

Keys(d) == {d[i][1] : i \in 1..Len(d)}

\* d[k]
getitem(d, k) == d[CHOOSE i \in 1..Len(d) : d[i][1] = k][2]

\* d[k] = v
setitem(d, k, v) ==
    IF k \in Keys(d)
    THEN [i \in 1..Len(d) |-> IF d[i][1] = k THEN <<k, v>> ELSE d[i]]
    ELSE Append(d, <<k, v>>)

DictA == << <<"final_score", <<"8", "5">>>> >>
DictB == << <<"candidate_name", <<"z">>>>, <<"final_score", <<"4", "0">>>> >>

\* what the endpoint does with one request
Responses ==
    { [ok |-> FALSE, decodable |-> FALSE, body |-> EmptyDict],
      [ok |-> TRUE, decodable |-> FALSE, body |-> EmptyDict],
      [ok |-> TRUE, decodable |-> TRUE, body |-> EmptyDict],
      [ok |-> TRUE, decodable |-> TRUE, body |-> DictA],
      [ok |-> TRUE, decodable |-> TRUE, body |-> DictB] }

None == [kind |-> "None", fields |-> EmptyDict]
Dict(d) == [kind |-> "dict", fields |-> d]

\* Python truth value of analysis_result (line 120)
Truthy(r) == r.kind = "dict" /\ Len(r.fields) > 0

(***************************************************************************)
(* The components                                                          *)
(***************************************************************************)
\* line 20: page.extract_text() or ""
PageText(pg) == IF pg.none \/ pg.text = <<>> THEN <<>> ELSE pg.text

RECURSIVE ConcatPages(_)
ConcatPages(pages) ==
    IF pages = <<>> THEN <<>>
    ELSE PageText(Head(pages)) \o ConcatPages(Tail(pages))

extract_text_from_resume(filepath, content) ==
    IF endswith(filepath, PDF_EXT) THEN ConcatPages(content.pages)
    ELSE IF endswith(filepath, TXT_EXT) THEN content.data
    ELSE <<>>

create_llm_prompt(job_desc, text) == [job |-> job_desc, resume |-> text]

\* lines 83-93: the try block of get_analysis_from_gpt
get_analysis_from_gpt(resp) ==
    IF resp.ok /\ resp.decodable THEN Dict(resp.body) ELSE None

IsBlankNoSpace(text) == text = <<>>

\* line 111: not resume_text or resume_text.isspace()
IsBlank(text) == text = <<>> \/ isspace(text)

SkipFallsThrough == "pass"

\* line 113
SkipStatement == "continue"

PerFileHandlerReraise == "reraise"

\* lines 134-136: except Exception, print, go on with the next file
PerFileHandler == "continue"

\* line 125
ReportName(filename) == splitext(filename)[1] \o REPORT_SUFFIX

\* line 129: json.dump(analysis_result, report_file, indent=4)
Dump(d) == [indent |-> 4, items |-> d, complete |-> TRUE]

\* a dump cut short by a failing write
Truncated == [indent |-> 4, items |-> EmptyDict, complete |-> FALSE]

WriteFileKeepFirst(files, name, bytes) ==
    [n \in DOMAIN files \cup {name} |-> IF n \in DOMAIN files THEN files[n] ELSE bytes]

\* line 128: open(report_filepath, 'w') creates or truncates the file
WriteFile(files, name, bytes) ==
    [n \in DOMAIN files \cup {name} |-> IF n = name THEN bytes ELSE files[n]]

NoFiles == [n \in {} |-> Truncated]

(***************************************************************************)
(* Initial state                                                           *)
(***************************************************************************)
Init ==
    /\ pc = "start"
    /\ jobDesc = "unset"
    /\ credential \in {"missing", "present"}
    /\ resumesFolder \in
         {[exists |-> FALSE, files |-> {}]} \cup
         {[exists |-> TRUE, files |-> S] : S \in Directories}
    /\ reportsExists \in BOOLEAN
    /\ reports = NoFiles
    /\ listing = <<>>
    /\ idx = 1
    /\ line = "filter"
    /\ state = [f \in {} |-> "Pending"]
    /\ resume_text = <<>>
    /\ prompt = create_llm_prompt("unset", <<>>)
    /\ analysis_result = None
    /\ disk = [f \in {} |-> Unreadable]
    /\ stub = [p \in {} |-> None]
    /\ called = {}
    /\ writes = <<>>
    /\ wfault = FALSE
    /\ run = 1
    /\ firstReports = NoFiles

env == <<jobDesc, credential, resumesFolder, run, firstReports>>
locals == <<resume_text, prompt, analysis_result>>

(***************************************************************************)
(* __main__, lines 139-149                                                 *)
(***************************************************************************)
\* line 141: yaml.safe_load returns a mapping, a mapping json.dumps cannot
\* serialise (a YAML date), or something that is no mapping (an empty file
\* gives None); a missing or malformed file raises
load_job_description ==
    /\ pc = "start"
    /\ \E outcome \in {"ConfigError", "mapping", "unserializable", "notmapping"} :
         IF outcome = "ConfigError"
         THEN pc' = "aborted" /\ jobDesc' = jobDesc
         ELSE pc' = "loaded" /\ jobDesc' = outcome
    /\ UNCHANGED <<credential, resumesFolder, reportsExists, reports, listing, idx,
                   line, state, locals, disk, stub, called, writes, wfault, run,
                   firstReports>>

\* lines 145-146: item assignment on what the loader returned
AddCityTiers ==
    /\ pc = "loaded"
    /\ pc' = IF jobDesc = "notmapping" THEN "aborted" ELSE "batch"
    /\ UNCHANGED <<env, reportsExists, reports, listing, idx, line, state, locals,
                   disk, stub, called, writes, wfault>>

(***************************************************************************)
(* process_resumes_in_batch, lines 95-136                                  *)
(***************************************************************************)
\* lines 97-98: os.makedirs is outside every try block
EnsureReportsFolder ==
    /\ pc = "batch"
    /\ IF reportsExists
       THEN pc' = "listdir" /\ reportsExists' = reportsExists
       ELSE \E created \in BOOLEAN :
              IF created
              THEN pc' = "listdir" /\ reportsExists' = TRUE
              ELSE pc' = "aborted" /\ reportsExists' = reportsExists
    /\ UNCHANGED <<env, reports, listing, idx, line, state, locals, disk, stub,
                   called, writes, wfault>>

\* line 101: os.listdir, in whatever order the file system gives; it raises when
\* the folder is missing, outside every try block
ListResumes ==
    /\ pc = "listdir"
    /\ IF resumesFolder.exists
       THEN \E order \in Orders(resumesFolder.files) :
              /\ listing' = order
              /\ state' = [f \in {g \in resumesFolder.files : Eligible(g)} |-> "Pending"]
              /\ pc' = "loop"
       ELSE pc' = "aborted" /\ UNCHANGED <<listing, state>>
    /\ idx' = 1
    /\ line' = "filter"
    /\ UNCHANGED <<env, reportsExists, reports, locals, disk, stub, called, writes,
                   wfault>>

cur == listing[idx]

InLoop(at) == pc = "loop" /\ idx <= Len(listing) /\ line = at

\* the loop goes on with the next directory entry; the three locals are dead
\* there (each is assigned again before it is read)
NextFile ==
    /\ idx' = idx + 1
    /\ line' = "filter"
    /\ resume_text' = <<>>
    /\ prompt' = create_llm_prompt("unset", <<>>)
    /\ analysis_result' = None

\* an exception raised inside the try block of line 107
Fault ==
    IF PerFileHandler = "continue"
    THEN /\ state' = [state EXCEPT ![cur] = "Failed"]
         /\ NextFile
         /\ pc' = pc
    ELSE /\ pc' = "aborted"
         /\ UNCHANGED <<state, idx, line, locals>>

\* line 103
FilterFile ==
    /\ InLoop("filter")
    /\ IF Eligible(cur)
       THEN line' = "extract" /\ idx' = idx
       ELSE line' = line /\ idx' = idx + 1
    /\ UNCHANGED <<pc, env, reportsExists, reports, listing, state, locals, disk,
                   stub, called, writes, wfault>>

\* lines 105, 108: the file is read (the same bytes every time it is read)
ExtractText ==
    /\ InLoop("extract")
    /\ \E content \in (IF cur \in DOMAIN disk THEN {disk[cur]} ELSE Contents(cur)) :
         /\ disk' = [f \in DOMAIN disk \cup {cur} |-> IF f = cur THEN content ELSE disk[f]]
         /\ IF content.readable
            THEN /\ resume_text' = extract_text_from_resume(path_join(RESUMES_DIR, cur), content)
                 /\ state' = [state EXCEPT ![cur] = "Extracted"]
                 /\ line' = "check_empty"
                 /\ UNCHANGED <<pc, idx, prompt, analysis_result>>
            ELSE Fault
    /\ UNCHANGED <<env, reportsExists, reports, listing, stub, called, writes, wfault>>

\* lines 111-113
CheckEmpty ==
    /\ InLoop("check_empty")
    /\ IF IsBlank(resume_text)
       THEN /\ state' = [state EXCEPT ![cur] = "SkippedEmpty"]
            /\ IF SkipStatement = "continue"
               THEN NextFile
               ELSE line' = "build_prompt" /\ UNCHANGED <<idx, locals>>
       ELSE line' = "build_prompt" /\ UNCHANGED <<state, idx, locals>>
    /\ UNCHANGED <<pc, env, reportsExists, reports, listing, disk, stub, called,
                   writes, wfault>>

\* line 116: json.dumps(job_desc) raises on a value it cannot serialise
BuildPrompt ==
    /\ InLoop("build_prompt")
    /\ IF jobDesc = "unserializable"
       THEN Fault
       ELSE /\ prompt' = create_llm_prompt(jobDesc, resume_text)
            /\ state' = [state EXCEPT ![cur] = "PromptBuilt"]
            /\ line' = "call"
            /\ UNCHANGED <<pc, idx, resume_text, analysis_result>>
    /\ UNCHANGED <<env, reportsExists, reports, listing, disk, stub, called, writes,
                   wfault>>

\* line 117 and lines 78-93: OpenAI(api_key=None) raises at line 81, before the
\* try block; every failure of the request or of json.loads is caught in it
CallClient ==
    /\ InLoop("call")
    /\ called' = called \cup {cur}
    /\ IF credential = "missing"
       THEN Fault /\ stub' = stub
       ELSE \E resp \in (IF prompt \in DOMAIN stub THEN {stub[prompt]} ELSE Responses) :
              /\ stub' = [p \in DOMAIN stub \cup {prompt} |->
                            IF p = prompt THEN resp ELSE stub[p]]
              /\ analysis_result' = get_analysis_from_gpt(resp)
              /\ state' = [state EXCEPT ![cur] = "Analyzed"]
              /\ line' = "check_result"
              /\ UNCHANGED <<pc, idx, resume_text, prompt>>
    /\ UNCHANGED <<env, reportsExists, reports, listing, disk, writes, wfault>>

\* lines 120-123 and 131-132
CheckResult ==
    /\ InLoop("check_result")
    /\ IF Truthy(analysis_result)
       THEN /\ analysis_result' =
                 Dict(setitem(analysis_result.fields, "candidate_name", splitext(cur)[1]))
            /\ line' = "write"
            /\ UNCHANGED <<state, idx, resume_text, prompt>>
       ELSE /\ state' = [state EXCEPT ![cur] = "SkippedNoResult"]
            /\ NextFile
    /\ UNCHANGED <<pc, env, reportsExists, reports, listing, disk, stub, called,
                   writes, wfault>>

\* lines 125-130: open may fail, and a write inside json.dump may fail after
\* open has created or truncated the file
WriteReport ==
    /\ InLoop("write")
    /\ \E outcome \in {"written", "open_fails", "dump_fails"} :
         LET name == ReportName(cur) IN
         CASE outcome = "written" ->
                /\ reports' = WriteFile(reports, name, Dump(analysis_result.fields))
                /\ writes' = Append(writes, [file |-> cur, name |-> name])
                /\ state' = [state EXCEPT ![cur] = "Written"]
                /\ NextFile
                /\ UNCHANGED <<pc, wfault>>
           [] outcome = "open_fails" ->
                /\ wfault' = TRUE
                /\ Fault
                /\ UNCHANGED <<reports, writes>>
           [] outcome = "dump_fails" ->
                /\ reports' = WriteFile(reports, name, Truncated)
                /\ writes' = Append(writes, [file |-> cur, name |-> name])
                /\ wfault' = TRUE
                /\ Fault
    /\ UNCHANGED <<env, reportsExists, listing, disk, stub, called>>

\* the loop is exhausted; line 149 prints "Processing complete" and the
\* program exits 0
FinishBatch ==
    /\ pc = "loop"
    /\ idx > Len(listing)
    /\ pc' = "complete"
    /\ UNCHANGED <<env, reportsExists, reports, listing, idx, line, state, locals,
                   disk, stub, called, writes, wfault>>

\* process_resumes_in_batch is called a second time on the same folders
Rerun ==
    /\ pc = "complete"
    /\ run = 1
    /\ run' = 2
    /\ firstReports' = reports
    /\ pc' = "batch"
    /\ listing' = <<>>
    /\ idx' = 1
    /\ line' = "filter"
    /\ state' = [f \in {} |-> "Pending"]
    /\ called' = {}
    /\ writes' = <<>>
    /\ UNCHANGED <<jobDesc, credential, resumesFolder, reportsExists, reports,
                   locals, disk, stub, wfault>>

Next ==
    \/ load_job_description
    \/ AddCityTiers
    \/ EnsureReportsFolder
    \/ ListResumes
    \/ FilterFile
    \/ ExtractText
    \/ CheckEmpty
    \/ BuildPrompt
    \/ CallClient
    \/ CheckResult
    \/ WriteReport
    \/ FinishBatch

\* one run of the program
Spec == Init /\ [][Next]_vars

\* one run of the program; the interpreter keeps executing while a statement
\* remains
FairSpec == Init /\ [][Next]_vars /\ WF_vars(Next)

NextTwice == Next \/ Rerun

\* the batch run twice
SpecTwice == Init /\ [][NextTwice]_vars

(***************************************************************************)
(* Vocabulary of the properties                                            *)
(***************************************************************************)
Terminal == {"SkippedEmpty", "SkippedNoResult", "Written", "Failed"}

\* the eligible files of the input directory
EligibleFiles == {f \in resumesFolder.files : Eligible(f)}

\* where os.listdir put the file
Pos(f) == CHOOSE i \in 1..Len(listing) : listing[i] = f

\* the file has been read and was readable
Read(f) == f \in DOMAIN disk /\ disk[f].readable

\* the text extraction gives for a file that has been read
TextOf(f) == extract_text_from_resume(path_join(RESUMES_DIR, f), disk[f])

\* empty, or nothing but whitespace
OnlyWhitespace(t) == \A i \in 1..Len(t) : t[i] \in Whitespace

PromptOf(f) == create_llm_prompt(jobDesc, TextOf(f))

\* the endpoint answered the file's prompt with a non-empty JSON object
Answered(f) ==
    /\ PromptOf(f) \in DOMAIN stub
    /\ stub[PromptOf(f)].ok
    /\ stub[PromptOf(f)].decodable
    /\ stub[PromptOf(f)].body # EmptyDict

\* the files that opened the report file of that name, in this batch
Producers(name) == {writes[i].file : i \in {j \in 1..Len(writes) : writes[j].name = name}}

Wrote(f) == \E i \in 1..Len(writes) : writes[i].file = f

\* the file name without its last four characters, ".pdf" or ".txt"
StripExtension(f) == SubSeq(f, 1, Len(f) - 4)

\* the report the file's analysis makes
ReportOf(f) == Dump(setitem(stub[PromptOf(f)].body, "candidate_name", splitext(f)[1]))

(***************************************************************************)
(* C1. After a batch that started from an empty output directory, the      *)
(* number of report artifacts is at most the number of eligible input      *)
(* files, and the two are equal exactly when every eligible file gave      *)
(* non-blank text and got a successful inference response. Stated for the  *)
(* batches in which no report write failed and with "successful" read as   *)
(* "a non-empty JSON object", the reading most favourable to the claim.    *)
(***************************************************************************)
C1_ArtifactCount ==
    (pc = "complete" /\ run = 1 /\ ~wfault) =>
        /\ Cardinality(DOMAIN reports) <= Cardinality(EligibleFiles)
        /\ (Cardinality(DOMAIN reports) = Cardinality(EligibleFiles)
              <=> \A f \in EligibleFiles :
                    Read(f) /\ ~OnlyWhitespace(TextOf(f)) /\ Answered(f))

(***************************************************************************)
(* C2. At the end of a batch every report artifact was produced by exactly *)
(* one eligible file, which reached Written; every Written file has an     *)
(* artifact of its own; a file whose extraction faulted or whose inference *)
(* call failed produced no artifact. Stated for the batches in which no    *)
(* report write failed.                                                    *)
(***************************************************************************)
C2_OneToOne ==
    (pc = "complete" /\ run = 1 /\ ~wfault) =>
        /\ \A n \in DOMAIN reports :
             /\ Cardinality(Producers(n)) = 1
             /\ \A f \in Producers(n) : f \in EligibleFiles /\ state[f] = "Written"
        /\ \A f \in EligibleFiles :
             state[f] = "Written" =>
               /\ ReportName(f) \in DOMAIN reports
               /\ \A g \in EligibleFiles :
                    (g # f /\ state[g] = "Written") => ReportName(g) # ReportName(f)
        /\ \A f \in EligibleFiles :
             (~Read(f) \/ ~Answered(f)) => ~Wrote(f)

(***************************************************************************)
(* C3. Fault isolation: once the loop over the directory listing has       *)
(* started, whatever happens to a file, the batch goes on to every later   *)
(* file: it reaches its end with every eligible file in a terminal         *)
(* outcome.                                                                *)
(***************************************************************************)
C3_FaultIsolation ==
    [](pc = "loop" => <>(pc = "complete" /\ \A f \in DOMAIN state : state[f] \in Terminal))

\* a file after a failed file, and after a file whose inference gave nothing,
\* was processed and reported
C3_Witness ==
    /\ pc = "complete"
    /\ \E f, g \in DOMAIN state :
         /\ Pos(f) < Pos(g)
         /\ state[f] = "Failed"
         /\ state[g] = "Written"

(***************************************************************************)
(* C4. Every report written holds a candidate_name field equal to the name *)
(* of the file it was produced from with its .pdf or .txt extension        *)
(* removed, whatever the name and whatever candidate_name the inference    *)
(* result carried.                                                         *)
(***************************************************************************)
C4_CandidateName ==
    \A f \in DOMAIN state :
        (state[f] = "Written" /\ Producers(ReportName(f)) = {f}) =>
            LET items == reports[ReportName(f)].items IN
            /\ "candidate_name" \in Keys(items)
            /\ getitem(items, "candidate_name") = StripExtension(f)

(***************************************************************************)
(* C5. get_analysis_from_gpt never raises to its caller: whenever the      *)
(* batch calls it, the call returns (a mapping or None) and the batch goes *)
(* on to test the result.                                                  *)
(***************************************************************************)
C5_ClientNeverRaises ==
    [][InLoop("call") => (line' = "check_result" /\ state'[cur] = "Analyzed")]_vars

(***************************************************************************)
(* C6. Only configuration loading aborts the run: the program ends         *)
(* abnormally only when load_job_description raised, or (counted here as a *)
(* configuration failure too) returned something that is no mapping.       *)
(***************************************************************************)
C6_OnlyConfigAborts ==
    pc = "aborted" => jobDesc \in {"unset", "notmapping"}

(***************************************************************************)
(* C7. Idempotence: a second batch over the same inputs, with an endpoint  *)
(* that answers a given prompt the same way, leaves the output directory   *)
(* as the first batch left it, whatever the listing order of each batch.   *)
(* Stated for the runs in which no report write failed.                    *)
(***************************************************************************)
C7_Idempotent ==
    (pc = "complete" /\ run = 2 /\ ~wfault) => reports = firstReports

(***************************************************************************)
(* C8. A file whose extracted text is empty or only whitespace is skipped  *)
(* as a normal outcome: no inference call, no artifact, no fault, and the  *)
(* batch goes on with the next file.                                       *)
(***************************************************************************)
C8_BlankSkipped ==
    \A f \in DOMAIN state :
        (Read(f) /\ OnlyWhitespace(TextOf(f)) /\ state[f] # "Pending") =>
            /\ state[f] \in {"Extracted", "SkippedEmpty"}
            /\ f \notin called
            /\ ~Wrote(f)
            /\ pc \in {"loop", "complete"}
            /\ (state[f] = "Extracted" => (idx = Pos(f) /\ line = "check_empty"))
            /\ (state[f] = "SkippedEmpty" => idx > Pos(f))

\* a whitespace-only file was skipped and the file after it was reported
C8_Witness ==
    /\ pc = "complete"
    /\ \E f, g \in DOMAIN state :
         /\ Read(f) /\ TextOf(f) # <<>> /\ OnlyWhitespace(TextOf(f))
         /\ state[f] = "SkippedEmpty"
         /\ Pos(f) < Pos(g)
         /\ state[g] = "Written"

(***************************************************************************)
(* C9. The per-file state machine.                                         *)
(***************************************************************************)
\* the transitions of the claim, with Failed entered only from Extracted on
ClaimedEdges ==
    { <<"Pending", "Extracted">>,
      <<"Extracted", "SkippedEmpty">>, <<"Extracted", "PromptBuilt">>,
      <<"PromptBuilt", "Analyzed">>,
      <<"Analyzed", "SkippedNoResult">>, <<"Analyzed", "Written">>,
      <<"Extracted", "Failed">>, <<"PromptBuilt", "Failed">>, <<"Analyzed", "Failed">> }

MovesAlong(edges) ==
    /\ \A f \in DOMAIN state :
         /\ f \in DOMAIN state'
         /\ (state'[f] = state[f] \/ <<state[f], state'[f]>> \in edges)
    /\ pc' = "complete" => \A f \in DOMAIN state' : state'[f] \in Terminal

\* C9 as claimed: each file moves only along the claimed transitions, never
\* leaves a terminal state, has a terminal state when the batch ends, and
\* enters Failed only after Extracted
C9_StateMachineAsClaimed == [][MovesAlong(ClaimedEdges)]_vars

\* C9 amended: the same, with Failed entered from Pending as well (the
\* extraction itself faults)
C9_StateMachine == [][MovesAlong(ClaimedEdges \cup {<<"Pending", "Failed">>})]_vars

\* a file went from Pending to Failed, beside a file that was written
C9_Witness ==
    /\ pc = "complete"
    /\ \E f, g \in DOMAIN state :
         /\ f \in DOMAIN disk /\ ~disk[f].readable /\ state[f] = "Failed"
         /\ state[g] = "Written"

(***************************************************************************)
(* C10. Last writer wins: when two eligible files with the same name up to *)
(* the extension are both written, the one report file of that name holds  *)
(* the report of the one that came later in the listing.                   *)
(***************************************************************************)
C10_LastWriterWins ==
    \A f, g \in DOMAIN state :
        ( /\ f # g
          /\ ReportName(f) = ReportName(g)
          /\ state[f] = "Written" /\ state[g] = "Written"
          /\ Pos(f) < Pos(g)
          /\ \A h \in DOMAIN state :
               (ReportName(h) = ReportName(g) /\ Pos(h) > Pos(g)) => ~Wrote(h) )
        => /\ ReportName(g) \in DOMAIN reports
           /\ reports[ReportName(g)] = ReportOf(g)

\* two files of one base name were both written, with different reports
C10_Witness ==
    \E f, g \in DOMAIN state :
        /\ f # g
        /\ ReportName(f) = ReportName(g)
        /\ state[f] = "Written" /\ state[g] = "Written"
        /\ Pos(f) < Pos(g)
        /\ ReportOf(f) # ReportOf(g)
        /\ reports[ReportName(g)] = ReportOf(g)

====
